---- MODULE Spec2Model ----
(***************************************************************************)
(* A model of src/src/App.tsx (TextDecoratorApp): the styling state held   *)
(* in useState cells, the preview render drawText (asynchronous: it waits  *)
(* for document.fonts.load between clearing the canvas and drawing), the   *)
(* export render downloadImage, the preset list and the local font         *)
(* enumeration.                                                            *)
(*                                                                         *)
(* JavaScript numbers are modelled as exact rationals <<n, d>> (d > 0, in  *)
(* lowest terms); rounding of IEEE doubles is not modelled.                *)
(***************************************************************************)
EXTENDS Integers, Sequences, FiniteSets, TLC

VARIABLES
    mounted,              \* the first commit has happened and its effects have run
    cfg,                  \* the 17 styling useState cells (lines 88-113)
    localFontsAvailable,  \* line 93
    localFonts,           \* line 94
    fontSource,           \* line 95
    isLoadingFonts,       \* line 96
    activeTab,            \* line 115
    presets,              \* line 116
    canvas,               \* the preview <canvas> (canvasRef): 2d context state and what is drawn on it
    downloadCanvas,       \* the hidden export <canvas> (downloadCanvasRef)
    renders,              \* drawText calls suspended at the await of line 230
    calls,                \* number of drawText calls started so far
    fontQuery,            \* the queryLocalFonts promise awaited at line 159
    alerts,               \* messages shown with alert()
    events                \* number of user events handled so far

vars == <<mounted, cfg, localFontsAvailable, localFonts, fontSource, isLoadingFonts,
          activeTab, presets, canvas, downloadCanvas, renders, calls, fontQuery,
          alerts, events>>

---------------------------------------------------------------------------
(* Bounds of the model. *)

\* user events (clicks, input changes) in one behaviour
MaxEvents == 2
\* length of the list an enumeration of the local fonts returns
MaxFonts == 3

---------------------------------------------------------------------------
(* Numbers. *)

Abs(n) == IF n < 0 THEN -n ELSE n

\* Euclid's algorithm (a function: its arguments are evaluated once)
Gcd[a \in Nat, b \in Nat] == IF b = 0 THEN a ELSE Gcd[b, a % b]

Norm(n, d) ==
    LET g == Gcd[Abs(n), Abs(d)]
        s == IF d < 0 THEN -1 ELSE 1
    IN  <<(s * n) \div g, (s * d) \div g>>

Rat(n) == <<n, 1>>

\* arithmetic on rationals (functions: their arguments are evaluated once)
Rational == Int \X (Nat \ {0})
RatMul[a \in Rational, b \in Rational] == Norm(a[1] * b[1], a[2] * b[2])
RatDiv[a \in Rational, b \in Rational] == Norm(a[1] * b[2], a[2] * b[1])
RatAdd[a \in Rational, b \in Rational] == Norm(a[1] * b[2] + b[1] * a[2], a[2] * b[2])
RatSub[a \in Rational, b \in Rational] == Norm(a[1] * b[2] - b[1] * a[2], a[2] * b[2])
RatLess(a, b) == a[1] * b[2] < b[1] * a[2]

\* Math.cos and Math.sin of angle * Math.PI / 180, for the multiples of 90
\* degrees the model uses (exact values; Math.cos(Math.PI / 2) is about 6e-17)
Cos(deg) ==
    CASE deg % 360 = 0   -> Rat(1)
      [] deg % 360 = 90  -> Rat(0)
      [] deg % 360 = 180 -> Rat(-1)
      [] deg % 360 = 270 -> Rat(0)

Sin(deg) ==
    CASE deg % 360 = 0   -> Rat(0)
      [] deg % 360 = 90  -> Rat(1)
      [] deg % 360 = 180 -> Rat(0)
      [] deg % 360 = 270 -> Rat(-1)

---------------------------------------------------------------------------
(* Data of the program. *)

\* presetFonts (labels in ASCII)
presetFonts == <<
    [label |-> "Noto Sans JP",
     family |-> "MyNotoJP, 'Noto Sans JP', 'Hiragino Kaku Gothic ProN', Meiryo, sans-serif"],
    [label |-> "BIZ UDPGothic",
     family |-> "MyBIZUDPGothic, 'BIZ UDPGothic', 'Hiragino Kaku Gothic ProN', Meiryo, sans-serif"],
    [label |-> "Source Han Sans JP",
     family |-> "MySourceHanSansJP, 'Source Han Sans JP', 'Hiragino Kaku Gothic ProN', Meiryo, sans-serif"],
    [label |-> "Arial Black", family |-> "Arial Black"],
    [label |-> "Impact", family |-> "Impact"],
    [label |-> "Arial", family |-> "Arial"],
    [label |-> "Times New Roman", family |-> "Times New Roman"],
    [label |-> "Courier New", family |-> "Courier New"],
    [label |-> "Comic Sans MS", family |-> "Comic Sans MS"] >>

\* the initial values of the styling useState cells; the initial text is
\* written in ASCII ("sample" for the four-character Japanese sample word)
InitialConfig ==
    [text |-> "sample",
     fontSize |-> 120,
     fontFamily |-> presetFonts[1].family,
     textColorType |-> "solid",
     textColor |-> "#FF0000",
     textGradientStart |-> "#FF0000",
     textGradientEnd |-> "#FF6600",
     textGradientAngle |-> 90,
     border1Color |-> "#FFFFFF",
     border1Width |-> 8,
     border2Color |-> "#000000",
     border2Width |-> 18,
     shadowEnabled |-> TRUE,
     shadowOffsetX |-> 8,
     shadowOffsetY |-> 8,
     shadowBlur |-> 10,
     shadowOpacity |-> <<3, 5>>]

\* the built-in presets (names in ASCII); a preset's config is a partial
\* record: the fields it does not define are absent from its domain
InitialPresets == <<
    [name |-> "YouTube",
     config |-> [textColor |-> "#FF0000", border1Color |-> "#FFFFFF", border1Width |-> 8,
                 border2Color |-> "#000000", border2Width |-> 18, textColorType |-> "solid"]],
    [name |-> "Game",
     config |-> [textColorType |-> "gradient", textGradientStart |-> "#FFD700",
                 textGradientEnd |-> "#FF8C00", border1Color |-> "#000000",
                 border1Width |-> 10, border2Color |-> "#FFFFFF", border2Width |-> 2]],
    [name |-> "SimpleWhite",
     config |-> [textColor |-> "#FFFFFF", border1Color |-> "#000000", border1Width |-> 6,
                 border2Color |-> "#333333", border2Width |-> 0, textColorType |-> "solid"]],
    [name |-> "Neon",
     config |-> [textColorType |-> "gradient", textGradientStart |-> "#00FFFF",
                 textGradientEnd |-> "#FF00FF", border1Color |-> "#FFFFFF",
                 border1Width |-> 4, border2Color |-> "#000000", border2Width |-> 12]] >>

\* the dependency list of the effect that calls drawText
EffectDeps ==
    {"text", "fontSize", "fontFamily", "textColor", "textColorType", "textGradientStart",
     "textGradientEnd", "textGradientAngle", "border1Color", "border1Width",
     "border2Color", "border2Width", "shadowEnabled", "shadowOffsetX",
     "shadowOffsetY", "shadowBlur", "shadowOpacity"}

\* the width and height attributes of the two canvas elements
PreviewWidth == 800
PreviewHeight == 450
ExportWidth == 1920
ExportHeight == 1080

\* the state of a fresh 2d context (the defaults of CanvasRenderingContext2D;
\* 'transparent' and the default shadow colour are both rgba(0, 0, 0, 0))
Transparent == <<"rgba", 0, 0, 0, Rat(0)>>

NewContext ==
    [font |-> [size |-> Rat(10), family |-> "sans-serif"],
     textAlign |-> "start",
     textBaseline |-> "alphabetic",
     lineJoin |-> "miter",
     miterLimit |-> 10,
     lineWidth |-> Rat(1),
     fillStyle |-> [kind |-> "color", color |-> "#000000"],
     strokeStyle |-> "#000000",
     shadowColor |-> Transparent,
     shadowBlur |-> Rat(0),
     shadowOffsetX |-> Rat(0),
     shadowOffsetY |-> Rat(0)]

NewCanvas(w, h) == [width |-> w, height |-> h, ctx |-> NewContext, content |-> <<>>]

---------------------------------------------------------------------------
(* The canvas API, as far as the program uses it. *)

\* ctx.fillText / ctx.strokeText: one draw operation on the surface, recorded
\* with the context state it is drawn with.  tag names the render that issues
\* the operation, with the styling state it runs with, and says whether a
\* font-readiness check of that render has settled by then ("settled") or the
\* render has issued none ("none").
DrawOp(s, tag, pass, call, text, x, y) ==
    [s EXCEPT !.content = Append(@, [render |-> tag.render, fontLoad |-> tag.fontLoad,
                                     config |-> tag.config,
                                     pass |-> pass, call |-> call, text |-> text,
                                     x |-> x, y |-> y, ctx |-> s.ctx])]

\* ctx.clearRect(0, 0, canvas.width, canvas.height)
ClearRect(s) == [s EXCEPT !.content = <<>>]

\* ctx.measureText(text).width: the advance width of the text in the current
\* font, taken as proportional to the font size (3/5 em per UTF-16 unit)
MeasureText(ctx, text) == RatMul[RatMul[Rat(Len(text)), ctx.font.size], <<3, 5>>]

\* ctx.createLinearGradient(x1, y1, x2, y2) with the two addColorStop calls
LinearGradient(x1, y1, x2, y2, start, end) ==
    [kind |-> "gradient", x1 |-> x1, y1 |-> y1, x2 |-> x2, y2 |-> y2,
     stops |-> <<<<0, start>>, <<1, end>>>>]

Color(c) == [kind |-> "color", color |-> c]

---------------------------------------------------------------------------
(* drawText, from the assignment of ctx.font (line 235) to the final       *)
(* fillText (line 292): the part that runs once the await has returned.    *)

DrawTextSetup(s, c) ==
    [s EXCEPT !.ctx.font = [size |-> Rat(c.fontSize), family |-> c.fontFamily],
              !.ctx.textAlign = "center",
              !.ctx.textBaseline = "middle",
              !.ctx.lineJoin = "round",
              !.ctx.miterLimit = 2]

\* a shadow pass that leaves the shadow switched on
DrawTextShadowLeaking(s, c, tag, x, y) ==
    IF c.shadowEnabled
    THEN LET a == [s EXCEPT !.ctx.shadowColor = <<"rgba", 0, 0, 0, c.shadowOpacity>>,
                            !.ctx.shadowBlur = Rat(c.shadowBlur),
                            !.ctx.shadowOffsetX = Rat(c.shadowOffsetX),
                            !.ctx.shadowOffsetY = Rat(c.shadowOffsetY),
                            !.ctx.fillStyle = Color("black")]
         IN  DrawOp(a, tag, "shadow", "fillText", c.text, x, y)
    ELSE s

DrawTextShadow(s, c, tag, x, y) ==
    IF c.shadowEnabled
    THEN LET a == [s EXCEPT !.ctx.shadowColor = <<"rgba", 0, 0, 0, c.shadowOpacity>>,
                            !.ctx.shadowBlur = Rat(c.shadowBlur),
                            !.ctx.shadowOffsetX = Rat(c.shadowOffsetX),
                            !.ctx.shadowOffsetY = Rat(c.shadowOffsetY),
                            !.ctx.fillStyle = Color("black")]
             b == DrawOp(a, tag, "shadow", "fillText", c.text, x, y)
         IN  [b EXCEPT !.ctx.shadowColor = Transparent,
                       !.ctx.shadowBlur = Rat(0),
                       !.ctx.shadowOffsetX = Rat(0),
                       !.ctx.shadowOffsetY = Rat(0)]
    ELSE s

DrawTextBorder2(s, c, tag, x, y) ==
    IF c.border2Width > 0
    THEN LET a == [s EXCEPT !.ctx.strokeStyle = c.border2Color,
                            !.ctx.lineWidth = Rat(c.border2Width * 2)]
         IN  DrawOp(a, tag, "border2", "strokeText", c.text, x, y)
    ELSE s

\* an inner stroke that does not test its width
DrawTextBorder1Unguarded(s, c, tag, x, y) ==
    LET a == [s EXCEPT !.ctx.strokeStyle = c.border1Color,
                       !.ctx.lineWidth = Rat(c.border1Width * 2)]
    IN  DrawOp(a, tag, "border1", "strokeText", c.text, x, y)

DrawTextBorder1(s, c, tag, x, y) ==
    IF c.border1Width > 0
    THEN LET a == [s EXCEPT !.ctx.strokeStyle = c.border1Color,
                            !.ctx.lineWidth = Rat(c.border1Width * 2)]
         IN  DrawOp(a, tag, "border1", "strokeText", c.text, x, y)
    ELSE s

DrawTextFill(s, c, tag, x, y) ==
    LET a == IF c.textColorType = "gradient"
             THEN LET textHeight == Rat(c.fontSize)
                      textWidth == MeasureText(s.ctx, c.text)
                      cos == Cos(c.textGradientAngle)
                      sin == Sin(c.textGradientAngle)
                      x1 == RatSub[x, RatMul[RatDiv[textWidth, Rat(2)], cos]]
                      y1 == RatSub[y, RatMul[RatDiv[textHeight, Rat(2)], sin]]
                      x2 == RatAdd[x, RatMul[RatDiv[textWidth, Rat(2)], cos]]
                      y2 == RatAdd[y, RatMul[RatDiv[textHeight, Rat(2)], sin]]
                  IN  [s EXCEPT !.ctx.fillStyle =
                           LinearGradient(x1, y1, x2, y2, c.textGradientStart, c.textGradientEnd)]
             ELSE [s EXCEPT !.ctx.fillStyle = Color(c.textColor)]
    IN  DrawOp(a, tag, "fill", "fillText", c.text, x, y)

\* a drawText that strokes the inner border before the outer one
DrawTextStepsSwapped == <<"shadow", "border1", "border2", "fill">>

\* the order in which drawText runs its passes (lines 244-292)
DrawTextSteps == <<"shadow", "border2", "border1", "fill">>

DrawTextStep(step, s, c, tag, x, y) ==
    CASE step = "shadow"  -> DrawTextShadow(s, c, tag, x, y)
      [] step = "border2" -> DrawTextBorder2(s, c, tag, x, y)
      [] step = "border1" -> DrawTextBorder1(s, c, tag, x, y)
      [] step = "fill"    -> DrawTextFill(s, c, tag, x, y)

RECURSIVE DrawTextRun(_, _, _, _, _, _)
DrawTextRun(steps, s, c, tag, x, y) ==
    IF steps = <<>> THEN s
    ELSE DrawTextRun(Tail(steps), DrawTextStep(Head(steps), s, c, tag, x, y), c, tag, x, y)

DrawTextBody(s, c, tag) ==
    LET x == RatDiv[Rat(s.width), Rat(2)]
        y == RatDiv[Rat(s.height), Rat(2)]
    IN  DrawTextRun(DrawTextSteps, DrawTextSetup(s, c), c, tag, x, y)

---------------------------------------------------------------------------
(* downloadImage, from clearRect (line 304) to the final fillText (361).   *)

\* a scale taken the wrong way round
ExportScaleInverted(target, preview) == RatDiv[Rat(preview.width), Rat(target.width)]

\* line 306
ExportScale(target, preview) == RatDiv[Rat(target.width), Rat(preview.width)]

DownloadImageSetup(s, c, scale) ==
    [s EXCEPT !.ctx.font = [size |-> RatMul[Rat(c.fontSize), scale], family |-> c.fontFamily],
              !.ctx.textAlign = "center",
              !.ctx.textBaseline = "middle",
              !.ctx.lineJoin = "round",
              !.ctx.miterLimit = 2]

\* a shadow pass that forgets to scale the blur radius
DownloadImageShadowUnscaled(s, c, tag, x, y, scale) ==
    IF c.shadowEnabled
    THEN LET a == [s EXCEPT !.ctx.shadowColor = <<"rgba", 0, 0, 0, c.shadowOpacity>>,
                            !.ctx.shadowBlur = Rat(c.shadowBlur),
                            !.ctx.shadowOffsetX = RatMul[Rat(c.shadowOffsetX), scale],
                            !.ctx.shadowOffsetY = RatMul[Rat(c.shadowOffsetY), scale],
                            !.ctx.fillStyle = Color("black")]
             b == DrawOp(a, tag, "shadow", "fillText", c.text, x, y)
         IN  [b EXCEPT !.ctx.shadowColor = Transparent,
                       !.ctx.shadowBlur = Rat(0),
                       !.ctx.shadowOffsetX = Rat(0),
                       !.ctx.shadowOffsetY = Rat(0)]
    ELSE s

DownloadImageShadow(s, c, tag, x, y, scale) ==
    IF c.shadowEnabled
    THEN LET a == [s EXCEPT !.ctx.shadowColor = <<"rgba", 0, 0, 0, c.shadowOpacity>>,
                            !.ctx.shadowBlur = RatMul[Rat(c.shadowBlur), scale],
                            !.ctx.shadowOffsetX = RatMul[Rat(c.shadowOffsetX), scale],
                            !.ctx.shadowOffsetY = RatMul[Rat(c.shadowOffsetY), scale],
                            !.ctx.fillStyle = Color("black")]
             b == DrawOp(a, tag, "shadow", "fillText", c.text, x, y)
         IN  [b EXCEPT !.ctx.shadowColor = Transparent,
                       !.ctx.shadowBlur = Rat(0),
                       !.ctx.shadowOffsetX = Rat(0),
                       !.ctx.shadowOffsetY = Rat(0)]
    ELSE s

DownloadImageBorder2(s, c, tag, x, y, scale) ==
    IF c.border2Width > 0
    THEN LET a == [s EXCEPT !.ctx.strokeStyle = c.border2Color,
                            !.ctx.lineWidth = RatMul[Rat(c.border2Width * 2), scale]]
         IN  DrawOp(a, tag, "border2", "strokeText", c.text, x, y)
    ELSE s

DownloadImageBorder1(s, c, tag, x, y, scale) ==
    IF c.border1Width > 0
    THEN LET a == [s EXCEPT !.ctx.strokeStyle = c.border1Color,
                            !.ctx.lineWidth = RatMul[Rat(c.border1Width * 2), scale]]
         IN  DrawOp(a, tag, "border1", "strokeText", c.text, x, y)
    ELSE s

\* a fill pass that takes the unscaled font size as the text height
DownloadImageFillUnscaledHeight(s, c, tag, x, y, scale) ==
    LET a == IF c.textColorType = "gradient"
             THEN LET textHeight == Rat(c.fontSize)
                      textWidth == MeasureText(s.ctx, c.text)
                      cos == Cos(c.textGradientAngle)
                      sin == Sin(c.textGradientAngle)
                      x1 == RatSub[x, RatMul[RatDiv[textWidth, Rat(2)], cos]]
                      y1 == RatSub[y, RatMul[RatDiv[textHeight, Rat(2)], sin]]
                      x2 == RatAdd[x, RatMul[RatDiv[textWidth, Rat(2)], cos]]
                      y2 == RatAdd[y, RatMul[RatDiv[textHeight, Rat(2)], sin]]
                  IN  [s EXCEPT !.ctx.fillStyle =
                           LinearGradient(x1, y1, x2, y2, c.textGradientStart, c.textGradientEnd)]
             ELSE [s EXCEPT !.ctx.fillStyle = Color(c.textColor)]
    IN  DrawOp(a, tag, "fill", "fillText", c.text, x, y)

DownloadImageFill(s, c, tag, x, y, scale) ==
    LET a == IF c.textColorType = "gradient"
             THEN LET textHeight == RatMul[Rat(c.fontSize), scale]
                      textWidth == MeasureText(s.ctx, c.text)
                      cos == Cos(c.textGradientAngle)
                      sin == Sin(c.textGradientAngle)
                      x1 == RatSub[x, RatMul[RatDiv[textWidth, Rat(2)], cos]]
                      y1 == RatSub[y, RatMul[RatDiv[textHeight, Rat(2)], sin]]
                      x2 == RatAdd[x, RatMul[RatDiv[textWidth, Rat(2)], cos]]
                      y2 == RatAdd[y, RatMul[RatDiv[textHeight, Rat(2)], sin]]
                  IN  [s EXCEPT !.ctx.fillStyle =
                           LinearGradient(x1, y1, x2, y2, c.textGradientStart, c.textGradientEnd)]
             ELSE [s EXCEPT !.ctx.fillStyle = Color(c.textColor)]
    IN  DrawOp(a, tag, "fill", "fillText", c.text, x, y)

\* the order in which downloadImage runs its passes (lines 317-361)
DownloadImageSteps == <<"shadow", "border2", "border1", "fill">>

DownloadImageStep(step, s, c, tag, x, y, scale) ==
    CASE step = "shadow"  -> DownloadImageShadow(s, c, tag, x, y, scale)
      [] step = "border2" -> DownloadImageBorder2(s, c, tag, x, y, scale)
      [] step = "border1" -> DownloadImageBorder1(s, c, tag, x, y, scale)
      [] step = "fill"    -> DownloadImageFill(s, c, tag, x, y, scale)

RECURSIVE DownloadImageRun(_, _, _, _, _, _, _)
DownloadImageRun(steps, s, c, tag, x, y, scale) ==
    IF steps = <<>> THEN s
    ELSE DownloadImageRun(Tail(steps), DownloadImageStep(Head(steps), s, c, tag, x, y, scale),
                          c, tag, x, y, scale)

\* the export render issues no font-readiness check: its operations carry
\* fontLoad = "none"; render 0 names the export
DownloadImageBody(s, preview, c) ==
    LET scale == ExportScale(s, preview)
        x == RatDiv[Rat(s.width), Rat(2)]
        y == RatDiv[Rat(s.height), Rat(2)]
        tag == [render |-> 0, fontLoad |-> "none", config |-> c]
    IN  DownloadImageRun(DownloadImageSteps, DownloadImageSetup(ClearRect(s), c, scale),
                         c, tag, x, y, scale)

---------------------------------------------------------------------------
(* The preview render: drawText and the effect that calls it. *)

\* drawText up to its await (lines 219-230): the canvas is cleared at once,
\* then the call is suspended on document.fonts.load with the styling state
\* of the commit it was created in (its closure)
DrawTextStart(c) ==
    /\ canvas' = ClearRect(canvas)
    /\ calls' = calls + 1
    /\ renders' = renders \cup {[id |-> calls + 1, config |-> c, fontLoad |-> "pending"]}

\* a commit whose effect has no dependency list: drawText runs on every commit
CommitAlways(c) ==
    /\ cfg' = c
    /\ DrawTextStart(c)

\* a commit of new styling state: the effect of lines 212-217 runs drawText
\* when one of its dependencies has changed
Commit(c) ==
    /\ cfg' = c
    /\ IF \E f \in EffectDeps : c[f] # cfg[f]
       THEN DrawTextStart(c)
       ELSE UNCHANGED <<canvas, renders, calls>>

\* promise reactions (the code after an await) run before the next event is
\* handled: no event is taken while a settled drawText call waits to resume
NoReactionQueued == \A r \in renders : r.fontLoad = "pending"

\* a user event can be handled
UserEvent ==
    /\ mounted
    /\ events < MaxEvents
    /\ NoReactionQueued
    /\ events' = events + 1

\* the first commit: canvasRef and downloadCanvasRef are attached and the two
\* effects run (lines 147-151: feature detection; lines 212-217: drawText)
Mount ==
    /\ ~mounted
    /\ mounted' = TRUE
    /\ \E supported \in BOOLEAN : localFontsAvailable' = supported
    /\ DrawTextStart(cfg)
    /\ UNCHANGED <<cfg, localFonts, fontSource, isLoadingFonts, activeTab, presets,
                   downloadCanvas, fontQuery, alerts, events>>

\* document.fonts.load settles (line 230): fulfilled, or rejected (caught at
\* line 231); renders settle in any order.  A promise that never settles is
\* a behaviour in which this step is never taken for it.
FontsLoadSettle(r, outcome) ==
    /\ r \in renders
    /\ r.fontLoad = "pending"
    /\ NoReactionQueued
    /\ renders' = (renders \ {r}) \cup {[r EXCEPT !.fontLoad = outcome]}
    /\ UNCHANGED <<mounted, cfg, localFontsAvailable, localFonts, fontSource, isLoadingFonts,
                   activeTab, presets, canvas, downloadCanvas, calls, fontQuery, alerts,
                   events>>

\* drawText resumes after the await and draws, with the styling state of its
\* closure, on whatever the canvas holds by then (lines 235-292)
DrawTextResume(r) ==
    /\ r \in renders
    /\ r.fontLoad \in {"fulfilled", "rejected"}
    /\ canvas' = DrawTextBody(canvas, r.config,
                            [render |-> r.id, fontLoad |-> "settled", config |-> r.config])
    /\ renders' = renders \ {r}
    /\ UNCHANGED <<mounted, cfg, localFontsAvailable, localFonts, fontSource, isLoadingFonts,
                   activeTab, presets, downloadCanvas, calls, fontQuery, alerts, events>>

\* what a handler that only sets styling state leaves alone
KeepsOtherState ==
    UNCHANGED <<mounted, localFontsAvailable, localFonts, fontSource, isLoadingFonts,
                activeTab, presets, downloadCanvas, fontQuery, alerts>>

---------------------------------------------------------------------------
(* The inputs of the form controls (values the controls can produce). *)

TextInputs == {"", "Hello"}
FontSizeInputs == {40}
ColorInputs == {"#00FF00"}
AngleInputs == {0, 360}
WidthInputs == {0, 10}
OffsetInputs == {0}
OpacityInputs == {Rat(1)}
Tabs == {"text", "border", "shadow"}

\* an input control reports a value only when it differs from the one shown
SetField(f, v) ==
    /\ UserEvent
    /\ v # cfg[f]
    /\ Commit([cfg EXCEPT ![f] = v])
    /\ KeepsOtherState

\* line 490
SetText(v) == SetField("text", v)

\* line 558: range 40..300
SetFontSize(v) == v \in 40..300 /\ SetField("fontSize", v)

\* lines 614 and 622: the two buttons of the text tab
SetTextColorType(v) ==
    /\ UserEvent
    /\ activeTab = "text"
    /\ Commit([cfg EXCEPT !.textColorType = v])
    /\ KeepsOtherState

\* lines 636 and 642: shown in solid mode
SetTextColor(v) ==
    /\ activeTab = "text" /\ cfg.textColorType = "solid"
    /\ SetField("textColor", v)

\* lines 655-679 and 693: shown in gradient mode
SetTextGradientStart(v) ==
    /\ activeTab = "text" /\ cfg.textColorType # "solid"
    /\ SetField("textGradientStart", v)

SetTextGradientEnd(v) ==
    /\ activeTab = "text" /\ cfg.textColorType # "solid"
    /\ SetField("textGradientEnd", v)

\* range 0..360
SetTextGradientAngle(v) ==
    /\ activeTab = "text" /\ cfg.textColorType # "solid"
    /\ v \in 0..360
    /\ SetField("textGradientAngle", v)

\* lines 712-759: the border tab; ranges 0..30 and 0..40
SetBorder1Color(v) == activeTab = "border" /\ SetField("border1Color", v)
SetBorder1Width(v) == activeTab = "border" /\ v \in 0..30 /\ SetField("border1Width", v)
SetBorder2Color(v) == activeTab = "border" /\ SetField("border2Color", v)
SetBorder2Width(v) == activeTab = "border" /\ v \in 0..40 /\ SetField("border2Width", v)

\* line 774: the checkbox of the shadow tab
SetShadowEnabled(v) == activeTab = "shadow" /\ SetField("shadowEnabled", v)

\* lines 787-835: shown while the shadow is enabled; ranges 0..30 and 0..1
SetShadowOffsetX(v) ==
    /\ activeTab = "shadow" /\ cfg.shadowEnabled /\ v \in 0..30
    /\ SetField("shadowOffsetX", v)

SetShadowOffsetY(v) ==
    /\ activeTab = "shadow" /\ cfg.shadowEnabled /\ v \in 0..30
    /\ SetField("shadowOffsetY", v)

SetShadowBlur(v) ==
    /\ activeTab = "shadow" /\ cfg.shadowEnabled /\ v \in 0..30
    /\ SetField("shadowBlur", v)

SetShadowOpacity(v) ==
    /\ activeTab = "shadow" /\ cfg.shadowEnabled
    /\ ~RatLess(v, Rat(0)) /\ ~RatLess(Rat(1), v)
    /\ SetField("shadowOpacity", v)

\* lines 578, 587, 596
SetActiveTab(tab) ==
    /\ UserEvent
    /\ activeTab' = tab
    /\ UNCHANGED <<mounted, cfg, localFontsAvailable, localFonts, fontSource, isLoadingFonts,
                   presets, canvas, downloadCanvas, renders, calls, fontQuery, alerts>>

---------------------------------------------------------------------------
(* Presets. *)

\* what prompt() returns: null when cancelled, else the text typed
PromptResults ==
    {[cancelled |-> TRUE, value |-> ""], [cancelled |-> FALSE, value |-> ""],
     [cancelled |-> FALSE, value |-> "Mine"], [cancelled |-> FALSE, value |-> "YouTube"]}

\* the object literal of lines 378-393
SavePresetConfig(c) ==
    [textColor |-> c.textColor,
     textColorType |-> c.textColorType,
     textGradientStart |-> c.textGradientStart,
     textGradientEnd |-> c.textGradientEnd,
     textGradientAngle |-> c.textGradientAngle,
     border1Color |-> c.border1Color,
     border1Width |-> c.border1Width,
     border2Color |-> c.border2Color,
     border2Width |-> c.border2Width,
     shadowEnabled |-> c.shadowEnabled,
     shadowOffsetX |-> c.shadowOffsetX,
     shadowOffsetY |-> c.shadowOffsetY,
     shadowBlur |-> c.shadowBlur,
     shadowOpacity |-> c.shadowOpacity]

\* a savePreset that keeps names unique: a preset of the same name is replaced
SavePresetOverwrite(p) ==
    /\ UserEvent
    /\ IF p.cancelled \/ p.value = ""
       THEN UNCHANGED presets
       ELSE LET new == [name |-> p.value, config |-> SavePresetConfig(cfg)]
            IN  IF \E i \in DOMAIN presets : presets[i].name = p.value
                THEN presets' = [i \in DOMAIN presets |->
                                    IF presets[i].name = p.value THEN new ELSE presets[i]]
                ELSE presets' = Append(presets, new)
    /\ UNCHANGED <<mounted, cfg, localFontsAvailable, localFonts, fontSource, isLoadingFonts,
                   activeTab, canvas, downloadCanvas, renders, calls, fontQuery, alerts>>

\* lines 374-396; !name holds for null and for the empty string
SavePreset(p) ==
    /\ UserEvent
    /\ IF p.cancelled \/ p.value = ""
       THEN UNCHANGED presets
       ELSE presets' = Append(presets, [name |-> p.value, config |-> SavePresetConfig(cfg)])
    /\ UNCHANGED <<mounted, cfg, localFontsAvailable, localFonts, fontSource, isLoadingFonts,
                   activeTab, canvas, downloadCanvas, renders, calls, fontQuery, alerts>>

\* the fields loadPreset looks at (lines 400-413)
LoadPresetFields ==
    {"textColor", "textColorType", "textGradientStart", "textGradientEnd",
     "textGradientAngle", "border1Color", "border1Width", "border2Color", "border2Width",
     "shadowEnabled", "shadowOffsetX", "shadowOffsetY", "shadowBlur", "shadowOpacity"}

\* a loadPreset that replaces the styling state: what the preset leaves out
\* goes back to its initial value
LoadPresetReplace(cur, c) ==
    [f \in DOMAIN cur |-> IF f \in DOMAIN c THEN c[f] ELSE InitialConfig[f]]

\* the styling state after loadPreset: a field is set when the preset's
\* config defines it (c.f !== undefined)
LoadPresetConfig(cur, c) ==
    [f \in DOMAIN cur |-> IF f \in LoadPresetFields /\ f \in DOMAIN c THEN c[f] ELSE cur[f]]

\* line 462: one button per preset; the setters are batched into one commit
LoadPreset(i) ==
    /\ UserEvent
    /\ i \in 1..Len(presets)
    /\ Commit(LoadPresetConfig(cfg, presets[i].config))
    /\ KeepsOtherState

---------------------------------------------------------------------------
(* The export render. *)

\* lines 295-372: both canvases are attached once mounted, so the guards of
\* lines 297-302 pass; the PNG handed to the browser (toBlob, lines 363-371)
\* changes no state of the program
DownloadImage ==
    /\ UserEvent
    /\ downloadCanvas' = DownloadImageBody(downloadCanvas, canvas, cfg)
    /\ UNCHANGED <<mounted, cfg, localFontsAvailable, localFonts, fontSource, isLoadingFonts,
                   activeTab, presets, canvas, renders, calls, fontQuery, alerts>>

---------------------------------------------------------------------------
(* Local fonts. *)

\* fonts the host may enumerate: two faces of one family and two more
\* families, with their UTF-16 code units
FontData ==
    {[family |-> "Ab", fullName |-> "Ab Regular", postscriptName |-> "Ab-Regular", style |-> "Regular"],
     [family |-> "Ab", fullName |-> "Ab Bold", postscriptName |-> "Ab-Bold", style |-> "Bold"],
     [family |-> "ab", fullName |-> "ab Regular", postscriptName |-> "ab-Regular", style |-> "Regular"],
     [family |-> "B", fullName |-> "B Regular", postscriptName |-> "B-Regular", style |-> "Regular"]}

CodeUnits(str) ==
    CASE str = "Ab" -> <<65, 98>>
      [] str = "ab" -> <<97, 98>>
      [] str = "B"  -> <<66>>

\* the lists queryLocalFonts may resolve with: each font once, in any order
FontLists ==
    {l \in UNION {[1..n -> FontData] : n \in 0..MaxFonts} :
        \A i, j \in DOMAIN l : i # j => l[i] # l[j]}

\* String.prototype.localeCompare on ASCII letters (the default collation):
\* the letters decide first, whatever their case; between strings with the
\* same letters, the first difference in case decides, lower case first
IsUpper(u) == u \in 65..90
FoldCase(u) == IF IsUpper(u) THEN u + 32 ELSE u

RECURSIVE CompareBy(_, _, _)
CompareBy(level, a, b) ==
    IF a = <<>> /\ b = <<>> THEN 0
    ELSE IF a = <<>> THEN -1
    ELSE IF b = <<>> THEN 1
    ELSE LET ka == IF level = 1 THEN FoldCase(Head(a)) ELSE IF IsUpper(Head(a)) THEN 1 ELSE 0
             kb == IF level = 1 THEN FoldCase(Head(b)) ELSE IF IsUpper(Head(b)) THEN 1 ELSE 0
         IN  IF ka < kb THEN -1
             ELSE IF ka > kb THEN 1
             ELSE CompareBy(level, Tail(a), Tail(b))

LocaleCompare(a, b) ==
    LET primary == CompareBy(1, CodeUnits(a), CodeUnits(b))
    IN  IF primary # 0 THEN primary ELSE CompareBy(3, CodeUnits(a), CodeUnits(b))

\* a map in which the first entry of a key wins
RECURSIVE MapOfFirst(_, _)
MapOfFirst(entries, m) ==
    IF entries = <<>> THEN m
    ELSE LET e == Head(entries)
         IN  MapOfFirst(Tail(entries),
                        IF \E i \in DOMAIN m : m[i][1] = e[1] THEN m ELSE Append(m, e))

\* new Map(entries): a key keeps the position of its first entry and takes
\* the value of its last
RECURSIVE MapOf(_, _)
MapOf(entries, m) ==
    IF entries = <<>> THEN m
    ELSE LET e == Head(entries)
             at == {i \in DOMAIN m : m[i][1] = e[1]}
         IN  MapOf(Tail(entries),
                   IF at = {} THEN Append(m, e)
                   ELSE [i \in DOMAIN m |-> IF i \in at THEN e ELSE m[i]])

MapValues(m) == [i \in DOMAIN m |-> m[i][2]]

\* Array.prototype.sort with the comparator of line 171 (a stable sort)
RECURSIVE InsertSorted(_, _)
InsertSorted(sorted, font) ==
    IF sorted = <<>> THEN <<font>>
    ELSE IF LocaleCompare(font.family, sorted[Len(sorted)].family) < 0
         THEN Append(InsertSorted(SubSeq(sorted, 1, Len(sorted) - 1), font), sorted[Len(sorted)])
         ELSE Append(sorted, font)

RECURSIVE SortByFamily(_)
SortByFamily(fonts) ==
    IF fonts = <<>> THEN <<>>
    ELSE InsertSorted(SortByFamily(SubSeq(fonts, 1, Len(fonts) - 1)), fonts[Len(fonts)])

\* lines 162-171
UniqueFonts(availableFonts) ==
    SortByFamily(MapValues(MapOf([i \in DOMAIN availableFonts |->
                                     <<availableFonts[i].family,
                                       [family |-> availableFonts[i].family,
                                        fullName |-> availableFonts[i].fullName,
                                        postscriptName |-> availableFonts[i].postscriptName,
                                        style |-> availableFonts[i].style]>>],
                                 <<>>)))

\* lines 183-189
ErrorMessage(name) ==
    IF name = "SecurityError" THEN "local fonts are restricted in this environment"
    ELSE IF name = "NotAllowedError" THEN "permission to access fonts was denied"
    ELSE "access to fonts failed"

ErrorNames == {"SecurityError", "NotAllowedError", "TypeError"}

\* loadLocalFonts up to its await (lines 154-159); the test of line 155 is
\* the one that set localFontsAvailable
LoadLocalFontsStart ==
    /\ localFontsAvailable
    /\ isLoadingFonts' = TRUE
    /\ fontQuery' = "pending"
    /\ UNCHANGED <<cfg, localFonts, fontSource, canvas, renders, calls>>

\* lines 199-210; the buttons exist when localFontsAvailable (line 501) and
\* the local one is disabled while fonts are loading (line 515)
HandleFontSourceChange(source) ==
    /\ UserEvent
    /\ localFontsAvailable
    /\ source = "local" => ~isLoadingFonts
    /\ IF source = "local" /\ Len(localFonts) = 0
       THEN LoadLocalFontsStart
       ELSE /\ fontSource' = source
            /\ Commit(IF source = "preset" THEN [cfg EXCEPT !.fontFamily = presetFonts[1].family]
                      ELSE IF Len(localFonts) > 0
                           THEN [cfg EXCEPT !.fontFamily = localFonts[1].family]
                           ELSE cfg)
            /\ UNCHANGED <<localFonts, isLoadingFonts, fontQuery>>
    /\ UNCHANGED <<mounted, localFontsAvailable, activeTab, presets, downloadCanvas, alerts>>

\* queryLocalFonts resolves: lines 159-179 and the finally block
QueryLocalFontsResolved(availableFonts) ==
    /\ fontQuery = "pending"
    /\ NoReactionQueued
    /\ fontQuery' = "idle"
    /\ LET uniqueFonts == UniqueFonts(availableFonts)
       IN  /\ localFonts' = uniqueFonts
           /\ fontSource' = "local"
           /\ Commit(IF Len(uniqueFonts) > 0
                     THEN [cfg EXCEPT !.fontFamily = uniqueFonts[1].family]
                     ELSE cfg)
    /\ isLoadingFonts' = FALSE
    /\ UNCHANGED <<mounted, localFontsAvailable, activeTab, presets, downloadCanvas, alerts,
                   events>>

\* a failure path without the finally block
QueryLocalFontsRejectedNoFinally(name) ==
    /\ fontQuery = "pending"
    /\ NoReactionQueued
    /\ fontQuery' = "idle"
    /\ alerts' = Append(alerts, ErrorMessage(name))
    /\ fontSource' = "preset"
    /\ UNCHANGED <<mounted, cfg, localFontsAvailable, localFonts, isLoadingFonts, activeTab,
                   presets, canvas, downloadCanvas, renders, calls, events>>

\* queryLocalFonts rejects: the catch block (lines 180-192) and the finally
QueryLocalFontsRejected(name) ==
    /\ fontQuery = "pending"
    /\ NoReactionQueued
    /\ fontQuery' = "idle"
    /\ alerts' = Append(alerts, ErrorMessage(name))
    /\ fontSource' = "preset"
    /\ isLoadingFonts' = FALSE
    /\ UNCHANGED <<mounted, cfg, localFontsAvailable, localFonts, activeTab, presets, canvas,
                   downloadCanvas, renders, calls, events>>

\* the options of the font <select> (lines 533-545)
FontOptions ==
    IF fontSource = "preset"
    THEN {presetFonts[i].family : i \in DOMAIN presetFonts}
    ELSE {localFonts[i].family : i \in DOMAIN localFonts}

FontInputs == {presetFonts[1].family, presetFonts[6].family} \cup {d.family : d \in FontData}

\* line 529; the <select> is disabled while fonts are loading (line 531)
SelectFont(v) ==
    /\ ~isLoadingFonts
    /\ v \in FontOptions
    /\ SetField("fontFamily", v)

---------------------------------------------------------------------------
(* Specifications. *)

\* the state after construction, before the first commit
Init ==
    /\ mounted = FALSE
    /\ cfg = InitialConfig
    /\ localFontsAvailable = FALSE
    /\ localFonts = <<>>
    /\ fontSource = "preset"
    /\ isLoadingFonts = FALSE
    /\ activeTab = "text"
    /\ presets = InitialPresets
    /\ canvas = NewCanvas(PreviewWidth, PreviewHeight)
    /\ downloadCanvas = NewCanvas(ExportWidth, ExportHeight)
    /\ renders = {}
    /\ calls = 0
    /\ fontQuery = "idle"
    /\ alerts = <<>>
    /\ events = 0

RenderSteps ==
    \/ \E r \in renders : \E outcome \in {"fulfilled", "rejected"} : FontsLoadSettle(r, outcome)
    \/ \E r \in renders : DrawTextResume(r)

\* the styling controls, the tabs and the presets
Next ==
    \/ Mount
    \/ \E v \in TextInputs : SetText(v)
    \/ \E v \in FontSizeInputs : SetFontSize(v)
    \/ \E v \in FontInputs : SelectFont(v)
    \/ \E v \in {"solid", "gradient"} : SetTextColorType(v)
    \/ \E v \in ColorInputs : SetTextColor(v)
    \/ \E v \in ColorInputs : SetTextGradientStart(v)
    \/ \E v \in ColorInputs : SetTextGradientEnd(v)
    \/ \E v \in AngleInputs : SetTextGradientAngle(v)
    \/ \E v \in ColorInputs : SetBorder1Color(v)
    \/ \E v \in WidthInputs : SetBorder1Width(v)
    \/ \E v \in ColorInputs : SetBorder2Color(v)
    \/ \E v \in WidthInputs : SetBorder2Width(v)
    \/ \E v \in BOOLEAN : SetShadowEnabled(v)
    \/ \E v \in OffsetInputs : SetShadowOffsetX(v)
    \/ \E v \in OffsetInputs : SetShadowOffsetY(v)
    \/ \E v \in OffsetInputs : SetShadowBlur(v)
    \/ \E v \in OpacityInputs : SetShadowOpacity(v)
    \/ \E tab \in Tabs : SetActiveTab(tab)
    \/ \E p \in PromptResults : SavePreset(p)
    \/ \E i \in 1..Len(presets) : LoadPreset(i)
    \/ RenderSteps

Spec == Init /\ [][Next]_vars

\* the same program with the scheduling of promise reactions stated: the
\* code after an await whose promise has settled does run
FairSpec == Spec /\ WF_vars(\E r \in renders : DrawTextResume(r))

\* the font source buttons, the font <select> and the enumeration
NextFonts ==
    \/ Mount
    \/ \E source \in {"preset", "local"} : HandleFontSourceChange(source)
    \/ \E availableFonts \in FontLists : QueryLocalFontsResolved(availableFonts)
    \/ \E name \in ErrorNames : QueryLocalFontsRejected(name)
    \/ \E v \in FontInputs : SelectFont(v)
    \/ RenderSteps

SpecFonts == Init /\ [][NextFonts]_vars

\* styling states the controls can produce (every field within the range of
\* its control)
ConfigSpace ==
    [text : {"", "AB"},
     fontSize : {40, 120},
     fontFamily : {presetFonts[6].family},
     textColorType : {"solid", "gradient"},
     textColor : {"#FF0000"},
     textGradientStart : {"#FFD700"},
     textGradientEnd : {"#FF8C00"},
     textGradientAngle : {0, 90, 180, 270, 360},
     border1Color : {"#FFFFFF"},
     border1Width : {0, 8},
     border2Color : {"#000000"},
     border2Width : {0, 10},
     shadowEnabled : BOOLEAN,
     shadowOffsetX : {8},
     shadowOffsetY : {0, 8},
     shadowBlur : {10},
     shadowOpacity : {<<3, 5>>}]

\* the program with some styling state c, at the moment the effect has
\* called drawText for it and every earlier render has completed.  What the
\* earlier renders left in the context (font, alignment, styles, line width)
\* is assigned again before it is used, so the context is taken as new.
InitRender ==
    /\ mounted = TRUE
    /\ cfg \in ConfigSpace
    /\ localFontsAvailable = FALSE
    /\ localFonts = <<>>
    /\ fontSource = "preset"
    /\ isLoadingFonts = FALSE
    /\ activeTab = "text"
    /\ presets = InitialPresets
    /\ canvas = NewCanvas(PreviewWidth, PreviewHeight)
    /\ downloadCanvas = NewCanvas(ExportWidth, ExportHeight)
    /\ renders = {[id |-> 1, config |-> cfg, fontLoad |-> "pending"]}
    /\ calls = 1
    /\ fontQuery = "idle"
    /\ alerts = <<>>
    /\ events = 0

\* one styling state rendered on both surfaces
NextRender ==
    \/ DownloadImage
    \/ RenderSteps

SpecRender == InitRender /\ [][NextRender]_vars

---------------------------------------------------------------------------
(* Properties. *)

Last(seq) == seq[Len(seq)]

Entries(s) == {s.content[i] : i \in DOMAIN s.content}

\* C1: the preview surface never holds the drawing of more than one render:
\* all draw operations on it since its last clear come from one drawText call.
C1_NoAccumulation ==
    \A d, e \in Entries(canvas) : d.render = e.render

\* C2: once no preview render is pending, the last draw operation applied to
\* the preview surface was made with the latest styling state, whatever the
\* order in which the font-readiness waits settled.
C2_LastWriteWins ==
    (mounted /\ renders = {}) =>
        /\ canvas.content # <<>>
        /\ Last(canvas.content).config = cfg

PassRank(pass) ==
    CASE pass = "shadow"  -> 1
      [] pass = "border2" -> 2
      [] pass = "border1" -> 3
      [] pass = "fill"    -> 4

\* the draw operations of one render on a surface, in the order issued
OpsOf(s, id) ==
    LET ByRender(e) == e.render = id
    IN  SelectSeq(s.content, ByRender)

\* a render's operations since the clear: shadow, outer stroke, inner
\* stroke, fill, each at most once and in this order, the fill last
InPassOrder(ops) ==
    /\ \A i, j \in DOMAIN ops : i < j => PassRank(ops[i].pass) < PassRank(ops[j].pass)
    /\ \A i \in DOMAIN ops :
          ops[i].call = (IF ops[i].pass \in {"border1", "border2"} THEN "strokeText"
                         ELSE "fillText")
    /\ ops # <<>>
    /\ Last(ops).pass = "fill"

ScenarioPreset == [border1Color |-> "#000000", border1Width |-> 5]

\* new is old with the fields c defines taken from c and every other field,
\* text, fontSize and fontFamily among them, kept
PartialMerge(old, new, c) ==
    /\ \A f \in LoadPresetFields \cap DOMAIN c : new[f] = c[f]
    /\ \A f \in LoadPresetFields \ DOMAIN c : new[f] = old[f]
    /\ new.text = old.text
    /\ new.fontSize = old.fontSize
    /\ new.fontFamily = old.fontFamily

\* C4: loadPreset is a field-by-field partial merge: every styling field the
\* preset's config defines takes the preset's value, every field it does not
\* define, and text, fontSize and fontFamily, keeps its value; with text
\* "Hello" and a preset defining only border1Color "#000000" and border1Width 5,
\* text stays "Hello" and the inner outline becomes black with width 5.
C4_PresetMerge ==
    /\ [][\A i \in 1..Len(presets) :
             LoadPreset(i) => PartialMerge(cfg, cfg', presets[i].config)]_vars
    /\ [](LET old == [cfg EXCEPT !.text = "Hello"]
              new == LoadPresetConfig(old, ScenarioPreset)
          IN  /\ PartialMerge(old, new, ScenarioPreset)
              /\ new.text = "Hello"
              /\ new.border1Color = "#000000"
              /\ new.border1Width = 5)

\* the Game preset loaded over an edited text colour, which it does not define
C4_Witness ==
    /\ cfg.textColor = "#00FF00"
    /\ cfg.textGradientStart = "#FFD700"
    /\ cfg.border1Width = 10
    /\ cfg.shadowEnabled

\* the scale of the export: export surface width / preview surface width
ScaleOf(target, preview) == <<target.width, preview.width>>
Times(a, b) == <<a[1] * b[1], a[2] * b[2]>>
SameNumber(a, b) == a[1] * b[2] = b[1] * a[2]

\* C5: the export multiplies every size-dependent parameter by
\* scale = export width / preview width: font size = fontSize * scale, shadow
\* blur and offsets = value * scale, stroke thickness = widthPx * scale * 2;
\* with a 1920-wide export, an 800-wide preview and widthPx = 10 the stroke
\* thickness is exactly 48.
C5_ExportScaling ==
    LET scale == ScaleOf(downloadCanvas, canvas)
    IN  \A e \in Entries(downloadCanvas) :
            /\ SameNumber(e.ctx.font.size, Times(Rat(e.config.fontSize), scale))
            /\ e.pass = "shadow" =>
                  /\ SameNumber(e.ctx.shadowBlur, Times(Rat(e.config.shadowBlur), scale))
                  /\ SameNumber(e.ctx.shadowOffsetX, Times(Rat(e.config.shadowOffsetX), scale))
                  /\ SameNumber(e.ctx.shadowOffsetY, Times(Rat(e.config.shadowOffsetY), scale))
            /\ e.pass = "border2" =>
                  /\ SameNumber(e.ctx.lineWidth,
                                Times(Times(Rat(e.config.border2Width), scale), Rat(2)))
                  /\ (e.config.border2Width = 10 /\ downloadCanvas.width = 1920
                          /\ canvas.width = 800) => e.ctx.lineWidth = Rat(48)
            /\ e.pass = "border1" =>
                  /\ SameNumber(e.ctx.lineWidth,
                                Times(Times(Rat(e.config.border1Width), scale), Rat(2)))
                  /\ (e.config.border1Width = 10 /\ downloadCanvas.width = 1920
                          /\ canvas.width = 800) => e.ctx.lineWidth = Rat(48)

C5_Witness ==
    \E e \in Entries(downloadCanvas) :
        /\ e.pass = "border2"
        /\ e.config.border2Width = 10
        /\ e.config.shadowEnabled
        /\ e.ctx.lineWidth = Rat(48)

\* what a draw operation depends on: the arguments of the call and the
\* context state the call reads
OpView(e) ==
    [pass |-> e.pass, call |-> e.call, text |-> e.text, x |-> e.x, y |-> e.y,
     font |-> e.ctx.font, textAlign |-> e.ctx.textAlign, textBaseline |-> e.ctx.textBaseline,
     shadowColor |-> e.ctx.shadowColor, shadowBlur |-> e.ctx.shadowBlur,
     shadowOffsetX |-> e.ctx.shadowOffsetX, shadowOffsetY |-> e.ctx.shadowOffsetY,
     style |-> IF e.call = "fillText" THEN e.ctx.fillStyle
               ELSE [kind |-> "stroke", color |-> e.ctx.strokeStyle,
                     lineWidth |-> e.ctx.lineWidth, lineJoin |-> e.ctx.lineJoin,
                     miterLimit |-> e.ctx.miterLimit]]

\* a coordinate at distance d from the anchor c, moved to the anchor c2 with
\* the distance multiplied by scale
ScaledAbout(v, c, c2, scale) == RatAdd[c2, RatMul[RatSub[v, c], scale]]

\* the operation v of the preview, moved to a surface with anchor (x2, y2)
\* and every size-dependent argument multiplied by scale
ScaledView(v, x2, y2, scale) ==
    [v EXCEPT !.x = x2,
              !.y = y2,
              !.font.size = RatMul[@, scale],
              !.shadowBlur = RatMul[@, scale],
              !.shadowOffsetX = RatMul[@, scale],
              !.shadowOffsetY = RatMul[@, scale],
              !.style = IF @.kind = "stroke" THEN [@ EXCEPT !.lineWidth = RatMul[@, scale]]
                        ELSE IF @.kind = "gradient"
                        THEN [@ EXCEPT !.x1 = ScaledAbout(@, v.x, x2, scale),
                                       !.y1 = ScaledAbout(@, v.y, y2, scale),
                                       !.x2 = ScaledAbout(@, v.x, x2, scale),
                                       !.y2 = ScaledAbout(@, v.y, y2, scale)]
                        ELSE @]

\* C6: the export reproduces the preview up to the scale factor: for one
\* styling state, the draw operations of downloadImage on the export surface
\* are those of drawText on the preview surface, with the anchor at the
\* export surface's centre and every size-dependent argument multiplied by
\* scale, and the same passes executed or skipped.
C6_ExportMatchesPreview ==
    (/\ renders = {}
     /\ canvas.content # <<>>
     /\ downloadCanvas.content # <<>>
     /\ Last(canvas.content).config = Last(downloadCanvas.content).config
     /\ C1_NoAccumulation) =>
        LET scale == RatDiv[Rat(downloadCanvas.width), Rat(canvas.width)]
            x2 == RatDiv[Rat(downloadCanvas.width), Rat(2)]
            y2 == RatDiv[Rat(downloadCanvas.height), Rat(2)]
        IN  /\ Len(downloadCanvas.content) = Len(canvas.content)
            /\ \A i \in DOMAIN canvas.content :
                  OpView(downloadCanvas.content[i])
                      = ScaledView(OpView(canvas.content[i]), x2, y2, scale)

C6_Witness ==
    /\ renders = {}
    /\ Len(canvas.content) = 4
    /\ Len(downloadCanvas.content) = 4
    /\ cfg.textColorType = "gradient"
    /\ cfg.textGradientAngle = 90
    /\ cfg.text # ""

\* C7: every started preview render eventually executes its draw passes,
\* also when the font-readiness check of its font never settles.
C7_RenderEventuallyDraws ==
    \A id \in 1..(MaxEvents + 1) :
        (\E r \in renders : r.id = id) ~> ~(\E r \in renders : r.id = id)

\* C8: in every render, preview and export alike, a font-readiness check has
\* been issued and has settled before the first draw pass executes.
C8_FontCheckedBeforeDraw ==
    \A e \in Entries(canvas) \cup Entries(downloadCanvas) : e.fontLoad = "settled"

\* C9: when the enumeration of the host fonts fails, with any error, a message
\* is shown, fontSource becomes 'preset', isLoadingFonts returns to false, and
\* localFonts and fontFamily are left unchanged; the program goes on.
C9_EnumerationFailure ==
    [][\A name \in ErrorNames :
          QueryLocalFontsRejected(name) =>
              /\ Len(alerts') = Len(alerts) + 1
              /\ fontSource' = "preset"
              /\ isLoadingFonts /\ ~isLoadingFonts'
              /\ localFonts' = localFonts
              /\ cfg'.fontFamily = cfg.fontFamily
              /\ mounted']_vars

C9_Witness ==
    /\ Len(alerts) = 1
    /\ fontSource = "preset"
    /\ ~isLoadingFonts
    /\ fontQuery = "idle"

Families(l) == {l[i].family : i \in DOMAIN l}
FirstOf(l, family) == l[CHOOSE i \in DOMAIN l :
                          l[i].family = family /\ \A j \in 1..(i - 1) : l[j].family # family]
LastOf(l, family) == l[CHOOSE i \in DOMAIN l :
                         l[i].family = family /\ \A j \in (i + 1)..Len(l) : l[j].family # family]

\* a before b in the order of the UTF-16 code units
RECURSIVE CodeUnitsLess(_, _)
CodeUnitsLess(a, b) ==
    IF b = <<>> THEN FALSE
    ELSE IF a = <<>> THEN TRUE
    ELSE IF Head(a) # Head(b) THEN Head(a) < Head(b)
    ELSE CodeUnitsLess(Tail(a), Tail(b))

OneEntryPerFamily(l, fonts) ==
    /\ Families(fonts) = Families(l)
    /\ Len(fonts) = Cardinality(Families(l))

\* C10 as stated: localFonts holds one entry per distinct family, the first
\* enumerated descriptor of that family, in ascending lexicographic order of
\* the family names.
C10_FirstOccurrenceSorted ==
    [][\A l \in FontLists :
          QueryLocalFontsResolved(l) =>
              /\ OneEntryPerFamily(l, localFonts')
              /\ \A i \in DOMAIN localFonts' :
                    localFonts'[i] = FirstOf(l, localFonts'[i].family)
              /\ \A i, j \in DOMAIN localFonts' :
                    i < j => CodeUnitsLess(CodeUnits(localFonts'[i].family),
                                           CodeUnits(localFonts'[j].family))]_vars

\* C10 as amended: localFonts holds one entry per distinct family, the last
\* enumerated descriptor of that family, and no entry is followed by one whose
\* family name localeCompare orders before it.
C10_LastOccurrenceCollated ==
    [][\A l \in FontLists :
          QueryLocalFontsResolved(l) =>
              /\ OneEntryPerFamily(l, localFonts')
              /\ \A i \in DOMAIN localFonts' :
                    localFonts'[i] = LastOf(l, localFonts'[i].family)
              /\ \A i, j \in DOMAIN localFonts' :
                    i < j => LocaleCompare(localFonts'[i].family, localFonts'[j].family) <= 0]_vars

\* an enumeration with two faces of family "Ab" has resolved
C10_Witness ==
    /\ fontQuery = "idle"
    /\ fontSource = "local"
    /\ Len(localFonts) = 2
    /\ localFonts[1].family = "ab"
    /\ localFonts[2].family = "Ab"
    /\ localFonts[2].style = "Bold"
    /\ cfg.fontFamily = "ab"

---------------------------------------------------------------------------
(* Stroke guards. *)

Views(content) == [i \in DOMAIN content |-> OpView(content[i])]

Without(steps, pass) ==
    LET Keep(p) == p # pass
    IN  SelectSeq(steps, Keep)

HasPass(content, pass) == \E i \in DOMAIN content : content[i].pass = pass

\* the operations of a preview render of c that runs the passes steps
PreviewOps(c, steps) ==
    LET s == NewCanvas(PreviewWidth, PreviewHeight)
        x == RatDiv[Rat(s.width), Rat(2)]
        y == RatDiv[Rat(s.height), Rat(2)]
        tag == [render |-> 1, fontLoad |-> "settled", config |-> c]
    IN  Views(DrawTextRun(steps, DrawTextSetup(s, c), c, tag, x, y).content)

\* the operations of an export render of c that runs the passes steps
ExportOps(c, steps) ==
    LET s == NewCanvas(ExportWidth, ExportHeight)
        scale == ExportScale(s, NewCanvas(PreviewWidth, PreviewHeight))
        x == RatDiv[Rat(s.width), Rat(2)]
        y == RatDiv[Rat(s.height), Rat(2)]
        tag == [render |-> 0, fontLoad |-> "none", config |-> c]
    IN  Views(DownloadImageRun(steps, DownloadImageSetup(s, c, scale), c, tag, x, y, scale).content)

\* the operations on a surface are those of a render of c in which a stroke
\* pass runs exactly when its width is above 0
GuardedStrokes(content, c, ops1, ops2) ==
    /\ HasPass(content, "border1") <=> c.border1Width > 0
    /\ HasPass(content, "border2") <=> c.border2Width > 0
    /\ c.border1Width = 0 => Views(content) = ops1
    /\ c.border2Width = 0 => Views(content) = ops2
    /\ HasPass(content, "fill")

\* C11: in preview and export the inner stroke is issued iff border1Width > 0
\* and the outer stroke iff border2Width > 0; a render with a width of 0
\* issues exactly the operations of a render without that stroke pass; and a
\* render with zero widths or empty text runs to its fill pass.
C11_StrokeGuards ==
    /\ (renders = {} /\ C1_NoAccumulation) =>
          GuardedStrokes(canvas.content, Last(canvas.content).config,
                         PreviewOps(Last(canvas.content).config, Without(DrawTextSteps, "border1")),
                         PreviewOps(Last(canvas.content).config, Without(DrawTextSteps, "border2")))
    /\ events > 0 =>
          GuardedStrokes(downloadCanvas.content, cfg,
                         ExportOps(cfg, Without(DownloadImageSteps, "border1")),
                         ExportOps(cfg, Without(DownloadImageSteps, "border2")))

\* the empty text rendered with no inner stroke on both surfaces
C11_Witness ==
    /\ renders = {}
    /\ cfg.text = ""
    /\ cfg.border1Width = 0
    /\ cfg.border2Width > 0
    /\ HasPass(canvas.content, "border2") /\ ~HasPass(canvas.content, "border1")
    /\ HasPass(downloadCanvas.content, "border2") /\ ~HasPass(downloadCanvas.content, "border1")

---------------------------------------------------------------------------
(* Re-renders. *)

\* the enumerations of at most one font: what the enumeration returns does
\* not matter to the number of renders beyond whether it changes fontFamily
ShortFontLists == {l \in FontLists : Len(l) <= 1}

\* every control of the program: the styling controls, the tabs, the presets
\* and the font controls
NextControls ==
    \/ Next
    \/ \E source \in {"preset", "local"} : HandleFontSourceChange(source)
    \/ \E availableFonts \in ShortFontLists : QueryLocalFontsResolved(availableFonts)
    \/ \E name \in ErrorNames : QueryLocalFontsRejected(name)

SpecControls == Init /\ [][NextControls]_vars

\* C12: a user action that changes at least one of the 17 styling fields
\* starts exactly one drawText call, however many fields it changes, and a
\* user action that changes none starts no call.
C12_OneRenderPerMutation ==
    [][events' = events + 1 =>
          calls' = calls + (IF cfg' # cfg THEN 1 ELSE 0)]_vars

\* a preset that changes several fields has been loaded over the initial
\* state, and the font source button of the current source has been clicked:
\* two user actions, one drawText call after the one of the first commit
C12_Witness ==
    /\ events = 2
    /\ calls = 2
    /\ cfg.textColorType = "gradient"
    /\ cfg.border1Width = 10
    /\ cfg.border2Width = 2
    /\ fontSource = "preset"
    /\ activeTab = "text"
    /\ Len(presets) = Len(InitialPresets)

---------------------------------------------------------------------------
(* The gradient angle. *)

\* C13: in every reachable state the gradient angle lies in [0, 360),
\* whatever angle-slider changes, preset saves and preset loads happened.
C13_AngleInRange ==
    /\ cfg.textGradientAngle >= 0
    /\ cfg.textGradientAngle < 360

---------------------------------------------------------------------------
(* The preset list. *)

\* the 14 styling fields of a preset, with the values they have in c
Snapshot(c) == [f \in LoadPresetFields |-> c[f]]

\* C14: the preset list is append-only: savePreset with a non-empty name
\* appends one preset holding a snapshot of the current styling fields, also
\* when a preset of that name exists; a cancelled or empty name leaves the
\* list unchanged; and no step removes, reorders or modifies a preset.
C14_PresetsAppendOnly ==
    [][/\ Len(presets') >= Len(presets)
       /\ SubSeq(presets', 1, Len(presets)) = presets
       /\ \A p \in PromptResults :
             SavePreset(p) =>
                 IF p.cancelled \/ p.value = ""
                 THEN presets' = presets
                 ELSE /\ Len(presets') = Len(presets) + 1
                      /\ Last(presets').name = p.value
                      /\ Last(presets').config = Snapshot(cfg)
       /\ \A i \in 1..Len(presets) : LoadPreset(i) => presets' = presets]_vars

\* a preset named like a built-in one has been saved after an edit
C14_Witness ==
    /\ Len(presets) = Len(InitialPresets) + 1
    /\ Last(presets).name = presets[1].name
    /\ Last(presets).config.textColor = "#00FF00"
    /\ presets[1] = InitialPresets[1]

---------------------------------------------------------------------------
(* The shadow state. *)

\* styling states rendered earlier on the two surfaces: the initial one,
\* with the shadow, and one without it
PriorConfigs ==
    {InitialConfig,
     [InitialConfig EXCEPT !.shadowEnabled = FALSE, !.border1Color = "#00FF00"]}

\* the program with some styling state c at the moment the effect has called
\* drawText for it, both surfaces having been rendered before with some
\* earlier state c0: their contexts hold what those renders left.  The
\* user events counted are those that follow.
InitRerender ==
    /\ mounted = TRUE
    /\ cfg \in ConfigSpace
    /\ localFontsAvailable = FALSE
    /\ localFonts = <<>>
    /\ fontSource = "preset"
    /\ isLoadingFonts = FALSE
    /\ activeTab = "text"
    /\ presets = InitialPresets
    /\ \E c0 \in PriorConfigs :
          /\ canvas = ClearRect(DrawTextBody(NewCanvas(PreviewWidth, PreviewHeight), c0,
                                             [render |-> 1, fontLoad |-> "settled", config |-> c0]))
          /\ downloadCanvas = DownloadImageBody(NewCanvas(ExportWidth, ExportHeight),
                                                NewCanvas(PreviewWidth, PreviewHeight), c0)
    /\ renders = {[id |-> 2, config |-> cfg, fontLoad |-> "pending"]}
    /\ calls = 2
    /\ fontQuery = "idle"
    /\ alerts = <<>>
    /\ events = 0

SpecRerender == InitRerender /\ [][NextRender]_vars

ShadowOff(ctx) ==
    /\ ctx.shadowColor = Transparent
    /\ ctx.shadowBlur = Rat(0)
    /\ ctx.shadowOffsetX = Rat(0)
    /\ ctx.shadowOffsetY = Rat(0)

\* C15: whenever a stroke pass or the fill pass executes, on the preview or on
\* the export and with the shadow enabled or not, the shadow state of the
\* context is off (colour transparent, blur 0, offsets 0); the shadow fill is
\* issued only when shadowEnabled is true.
C15_ShadowNeverLeaks ==
    \A e \in Entries(canvas) \cup Entries(downloadCanvas) :
        /\ e.pass \in {"border2", "border1", "fill"} => ShadowOff(e.ctx)
        /\ e.pass = "shadow" => e.config.shadowEnabled

\* a state without shadow and without strokes rendered on both surfaces, on
\* contexts that an earlier render with the shadow has used
C15_Witness ==
    /\ renders = {}
    /\ ~cfg.shadowEnabled
    /\ cfg.border1Width = 0 /\ cfg.border2Width = 0
    /\ canvas.ctx.strokeStyle = "#FFFFFF"
    /\ downloadCanvas.ctx.strokeStyle = "#FFFFFF"
    /\ Len(canvas.content) = 1 /\ Last(canvas.content).config = cfg
    /\ Len(downloadCanvas.content) = 1 /\ Last(downloadCanvas.content).config = cfg

---------------------------------------------------------------------------
(* The gradient axis. *)

\* the fill operation e of a render with scale factor scale on the surface s
\* has its gradient axis centred on the centre of s
CentredAxis(e, s, scale) ==
    LET g == e.ctx.fillStyle
        ax == RatDiv[Rat(s.width), Rat(2)]
        ay == RatDiv[Rat(s.height), Rat(2)]
        halfW == RatDiv[MeasureText(e.ctx, e.text), Rat(2)]
        halfH == RatDiv[RatMul[Rat(e.config.fontSize), scale], Rat(2)]
        dx == RatMul[halfW, Cos(e.config.textGradientAngle)]
        dy == RatMul[halfH, Sin(e.config.textGradientAngle)]
    IN  /\ g.kind = "gradient"
        /\ <<g.x1, g.y1>> = <<RatSub[ax, dx], RatSub[ay, dy]>>
        /\ <<g.x2, g.y2>> = <<RatAdd[ax, dx], RatAdd[ay, dy]>>
        /\ RatAdd[g.x1, g.x2] = RatMul[Rat(2), ax]
        /\ RatAdd[g.y1, g.y2] = RatMul[Rat(2), ay]
        /\ e.config.textGradientAngle = 0 => g.y1 = g.y2
        /\ e.config.textGradientAngle = 90 => g.x1 = g.x2
        /\ g.stops = <<<<0, e.config.textGradientStart>>, <<1, e.config.textGradientEnd>>>>

\* C16: in gradient mode the endpoints of the gradient axis are
\* anchor - (W/2 cos, H/2 sin) and anchor + (W/2 cos, H/2 sin), W the measured
\* text width and H = fontSize * scale, so their midpoint is the centre of the
\* surface for every angle; the axis is horizontal for angle 0 and vertical
\* for angle 90; stop 0 is the start colour and stop 1 the end colour.
C16_GradientAxis ==
    /\ \A e \in Entries(canvas) :
          (e.pass = "fill" /\ e.config.textColorType = "gradient") =>
              CentredAxis(e, canvas, Rat(1))
    /\ \A e \in Entries(downloadCanvas) :
          (e.pass = "fill" /\ e.config.textColorType = "gradient") =>
              CentredAxis(e, downloadCanvas,
                          RatDiv[Rat(downloadCanvas.width), Rat(canvas.width)])

\* a vertical gradient over a non-empty text on both surfaces
C16_Witness ==
    /\ renders = {}
    /\ cfg.textColorType = "gradient"
    /\ cfg.textGradientAngle = 90
    /\ cfg.text # ""
    /\ canvas.content # <<>> /\ downloadCanvas.content # <<>>
    /\ LET g == Last(canvas.content).ctx.fillStyle
           h == Last(downloadCanvas.content).ctx.fillStyle
       IN  /\ g.kind = "gradient" /\ g.x1 = g.x2 /\ g.y1 # g.y2
           /\ h.kind = "gradient" /\ h.x1 = h.x2 /\ h.y1 # h.y2

---------------------------------------------------------------------------
(* The selected font. *)

\* C17: whenever no font enumeration is in progress, the selected fontFamily
\* is one of the options of the font list on offer: the family of a preset
\* font when fontSource is 'preset', a family of localFonts when it is 'local'.
C17_FontFamilyOffered ==
    (mounted /\ ~isLoadingFonts /\ fontQuery = "idle") => cfg.fontFamily \in FontOptions

====
